---- MODULE Spec2Model ----
(***************************************************************************)
(* A model of stats_processor.py: parse_hands, process_hands and           *)
(* calculate_stats, with extract_player_id and the string tests they use.  *)
(* A log line is a sequence of one-character strings, so that prefix       *)
(* tests, substring tests, slicing, splitting and lower-casing are         *)
(* computed as Python computes them.                                       *)
(***************************************************************************)
EXTENDS Integers, Sequences, FiniteSets, TLC

(***************************************************************************)
(* Bounds of the model.                                                    *)
(***************************************************************************)
\* the number of lines given to parse_hands
MaxLogs == 7
\* the number of lines given to process_hands when it is fed hands directly
MaxHandLogs == 4
\* the number of hands given to process_hands when it is fed hands directly
MaxHands == 2
\* the number of hands of a list of hands given to process_hands
MaxGiven == 3
\* the number of characters of a line given to extract_player_id
MaxChars == 4
\* the number of names an entry of the directory can have
MaxFiles == 3
\* the contents of a file are the numbers 0 .. MaxContent
MaxContent == 3
\* the number of digests of md5 (2^128 in the code)
Digests == 3

(***************************************************************************)
(* Python's str operations.                                                *)
(***************************************************************************)
\* str.startswith
startswith(log, prefix) ==
    /\ Len(log) >= Len(prefix)
    /\ SubSeq(log, 1, Len(prefix)) = prefix

\* the positions (from 1) at which sub occurs in log
Occurrences(sub, log) ==
    {k \in 1..(Len(log) - Len(sub) + 1) : SubSeq(log, k, k + Len(sub) - 1) = sub}

\* `sub in log`
contains(sub, log) == Occurrences(sub, log) # {}

\* str.index, counted from 0 as Python counts
index(log, sub) ==
    (CHOOSE k \in Occurrences(sub, log) : \A m \in Occurrences(sub, log) : k <= m) - 1

\* log[a:b] for 0 <= a, counted from 0, b exclusive
slice(log, a, b) == SubSeq(log, a + 1, b)

UpperCase == <<"A","B","C","D","E","F","G","H","I","J","K","L","M",
               "N","O","P","Q","R","S","T","U","V","W","X","Y","Z">>
LowerCase == <<"a","b","c","d","e","f","g","h","i","j","k","l","m",
               "n","o","p","q","r","s","t","u","v","w","x","y","z">>

lowerChar(c) ==
    IF \E k \in 1..26 : UpperCase[k] = c
    THEN LowerCase[CHOOSE k \in 1..26 : UpperCase[k] = c]
    ELSE c

\* str.lower
lower(s) == [k \in 1..Len(s) |-> lowerChar(s[k])]

Whitespace == {" ", "\t"}

\* str.split(): the maximal runs of non-whitespace characters, in order
RECURSIVE split(_)
split(s) ==
    IF s = <<>> THEN <<>>
    ELSE IF Head(s) \in Whitespace THEN split(Tail(s))
    ELSE LET stops == {k \in 1..Len(s) : s[k] \in Whitespace}
             stop  == IF stops = {} THEN Len(s) + 1
                      ELSE CHOOSE k \in stops : \A m \in stops : k <= m
         IN  <<SubSeq(s, 1, stop - 1)>> \o split(SubSeq(s, stop, Len(s)))

\* str.strip(chars): the characters of chars removed from both ends
RECURSIVE strip(_, _)
strip(s, chars) ==
    IF s = <<>> THEN <<>>
    ELSE IF Head(s) \in chars THEN strip(Tail(s), chars)
    ELSE IF s[Len(s)] \in chars THEN strip(SubSeq(s, 1, Len(s) - 1), chars)
    ELSE s

(***************************************************************************)
(* The literals of the program.                                            *)
(***************************************************************************)
SpaceAt   == <<" ", "@">>
Quote     == "\""
StartMark == <<"-", "-", " ", "s", "t", "a", "r", "t", "i", "n", "g">>
EndMark   == <<"-", "-", " ", "e", "n", "d", "i", "n", "g">>
FlopMark  == <<"F", "l", "o", "p">>
TurnMark  == <<"T", "u", "r", "n">>
RiverMark == <<"R", "i", "v", "e", "r">>
folds     == <<"f", "o", "l", "d", "s">>
calls     == <<"c", "a", "l", "l", "s">>
raises    == <<"r", "a", "i", "s", "e", "s">>
bets      == <<"b", "e", "t", "s">>
checks    == <<"c", "h", "e", "c", "k", "s">>
ShowsA    == <<"s", "h", "o", "w", "s", " ", "a">>
Collected == <<"c", "o", "l", "l", "e", "c", "t", "e", "d">>
FromPot   == <<"f", "r", "o", "m", " ", "p", "o", "t">>

\* the value that stands for Python's IndexError
IndexError == <<"IndexError">>

\* extract_player_id
extract_player_id(log) ==
    IF contains(SpaceAt, log)
    THEN lower(slice(log, 1, index(log, SpaceAt)))
    ELSE IF split(log) = <<>> THEN IndexError
    ELSE lower(strip(split(log)[1], {Quote}))


(***************************************************************************)
(* The lines the model feeds to the program.                               *)
(***************************************************************************)
Sp == <<" ">>
P1 == <<"p", "1">>
P2 == <<"p", "2">>
\* "P1 @ x": the quoted name-and-id form of the logs
QP1 == <<Quote, "P", "1", " ", "@", " ", "x", Quote>>

PRaises == <<"r", "a", "i", "s", "e", "s">>
PFlop   == <<"f", "l", "o", "p">>

\* the betting lines given to process_hands when it is fed hands directly
HandLogs ==
    { P1 \o Sp \o raises,
      QP1 \o Sp \o calls,
      P2 \o Sp \o raises,
      P2 \o Sp \o folds,
      PRaises \o Sp \o calls,
      PFlop \o Sp \o raises,
      FlopMark,
      FlopMark \o Sp \o bets \o Sp \o raises,
      P1 \o Sp \o bets,
      P1 \o Sp \o checks,
      TurnMark,
      RiverMark }

\* the showdown lines given to process_hands when it is fed hands directly
ShowdownLogs ==
    { P1 \o Sp \o folds,
      RiverMark,
      QP1 \o Sp \o ShowsA,
      P1 \o Sp \o Collected \o Sp \o FromPot,
      P2 \o Sp \o Collected \o Sp \o FromPot,
      P2 \o Sp \o ShowsA \o Sp \o Collected \o Sp \o FromPot }

\* the lines given to parse_hands
Logs ==
    { StartMark,
      EndMark,
      P1 \o Sp \o folds,
      QP1 \o Sp \o ShowsA }

(***************************************************************************)
(* The state of the program.                                               *)
(***************************************************************************)
VARIABLES
    pc,                \* the function that is running
    logs,              \* parse_hands: the lines read so far
    hands,             \* parse_hands: hands
    in_hand,           \* parse_hands: in_hand
    current_hand,      \* parse_hands: current_hand
    hand_no,           \* process_hands: the number of the hand being read
    log_no,            \* process_hands: the number of the next line of the hand
    log,               \* process_hands: the line read last
    nlogs,             \* process_hands: the number of lines read in all hands
    hand_preflop, raise_count, hand_threebet, hand_cbet, street,
    first_raiser, preflop_raiser, possible_3bettors, has_cbet,
    players_shown, players_collected,
    preflop, threebets, cbets, can_3bet, showdowns, showdown_wins,
    stats,             \* calculate_stats: stats
    first_run,         \* the lines and the output of a finished run, if any
    player_id,         \* the value of a call of extract_player_id, if any
    dir,               \* the entries of the directory path_to_logs
    dir_before,        \* the entries when remove_duplicate_files was called
    files,             \* remove_duplicate_files: files
    file_no,           \* remove_duplicate_files: the number of the next file
    seen_hashes,       \* remove_duplicate_files: seen_hashes
    duplicates_removed,\* remove_duplicate_files: duplicates_removed
    runs               \* the number of calls of remove_duplicate_files

parseVars == <<logs, hands, in_hand, current_hand>>
handVars  == <<hand_preflop, raise_count, hand_threebet, hand_cbet, street,
               first_raiser, preflop_raiser, possible_3bettors, has_cbet,
               players_shown, players_collected>>
counters  == <<preflop, threebets, cbets, can_3bet, showdowns, showdown_wins>>
loopVars  == <<hand_no, log_no, log, nlogs>>
dupVars   == <<dir, dir_before, files, file_no, seen_hashes,
               duplicates_removed, runs>>
callVars  == <<first_run, player_id, dupVars>>
vars      == <<pc, parseVars, loopVars, handVars, counters, stats, callVars>>

\* the empty dict
EmptyDict == <<>>

actions      == <<folds, calls, raises>>
flop_actions == <<bets, checks, folds, calls, raises>>

Range(s) == {s[k] : k \in DOMAIN s}

\* a defaultdict's value for a key, the default when the key is absent
Get(d, key, default) == IF key \in DOMAIN d THEN d[key] ELSE default

\* Put that keeps the value of a key that is already there
Put_KeepFirst(d, key, value) ==
    [k \in DOMAIN d \cup {key} |-> IF k \in DOMAIN d THEN d[k] ELSE value]

\* d[key] = value
Put(d, key, value) ==
    [k \in DOMAIN d \cup {key} |-> IF k = key THEN value ELSE d[k]]

(***************************************************************************)
(* parse_hands.                                                            *)
(***************************************************************************)
\* ParseStep without the test `if current_hand`: an ending always emits
ParseStep_EmitsEmpty(l) ==
    LET ending == startswith(l, EndMark)
        in1    == IF ending THEN FALSE ELSE in_hand
        hands1 == IF ending THEN Append(hands, current_hand) ELSE hands
        cur1   == IF ending THEN <<>> ELSE current_hand
        cur2   == IF in1 THEN Append(cur1, l) ELSE cur1
        in2    == IF startswith(l, StartMark) THEN TRUE ELSE in1
    IN  /\ hands' = hands1
        /\ current_hand' = cur2
        /\ in_hand' = in2

\* ParseStep without `in_hand = False`: an ending does not stop the collecting
ParseStep_KeepsCollecting(l) ==
    LET ending == startswith(l, EndMark)
        hands1 == IF ending /\ current_hand # <<>>
                  THEN Append(hands, current_hand) ELSE hands
        cur1   == IF ending THEN <<>> ELSE current_hand
        cur2   == IF in_hand /\ ~ending THEN Append(cur1, l) ELSE cur1
        in2    == IF startswith(l, StartMark) THEN TRUE ELSE in_hand
    IN  /\ hands' = hands1
        /\ current_hand' = cur2
        /\ in_hand' = in2

\* the body of the loop of parse_hands for one line
ParseStep(l) ==
    LET ending == startswith(l, EndMark)
        in1    == IF ending THEN FALSE ELSE in_hand
        hands1 == IF ending /\ current_hand # <<>>
                  THEN Append(hands, current_hand) ELSE hands
        cur1   == IF ending THEN <<>> ELSE current_hand
        cur2   == IF in1 THEN Append(cur1, l) ELSE cur1
        in2    == IF startswith(l, StartMark) THEN TRUE ELSE in1
    IN  /\ hands' = hands1
        /\ current_hand' = cur2
        /\ in_hand' = in2

ParseLog ==
    /\ pc = "parse_hands"
    /\ Len(logs) < MaxLogs
    /\ \E l \in Logs :
          /\ ParseStep(l)
          /\ logs' = Append(logs, l)
    /\ UNCHANGED <<pc, loopVars, handVars, counters, stats, callVars>>

ParseReturn ==
    /\ pc = "parse_hands"
    /\ pc' = "process_hands"
    /\ UNCHANGED <<parseVars, loopVars, handVars, counters, stats, callVars>>


(***************************************************************************)
(* process_hands: one line of one hand.                                    *)
(***************************************************************************)
\* the state of one hand, as the loop over its lines reads and writes it
HandState ==
    [ hand_preflop |-> hand_preflop, raise_count |-> raise_count,
      hand_threebet |-> hand_threebet, hand_cbet |-> hand_cbet,
      street |-> street, first_raiser |-> first_raiser,
      preflop_raiser |-> preflop_raiser,
      possible_3bettors |-> possible_3bettors, has_cbet |-> has_cbet,
      players_shown |-> players_shown,
      players_collected |-> players_collected ]

\* the state of a hand before its first line
NewHand ==
    [ hand_preflop |-> EmptyDict, raise_count |-> 0,
      hand_threebet |-> EmptyDict, hand_cbet |-> EmptyDict,
      street |-> "preflop", first_raiser |-> <<>>,
      preflop_raiser |-> <<>>,
      possible_3bettors |-> {}, has_cbet |-> FALSE,
      players_shown |-> {}, players_collected |-> {} ]

\* DetectStreet with `else: street = "preflop"` after the three tests
DetectStreet_ElsePreflop(s, l) ==
    IF startswith(l, FlopMark) THEN [s EXCEPT !.street = "flop"]
    ELSE IF startswith(l, TurnMark) THEN [s EXCEPT !.street = "turn"]
    ELSE IF startswith(l, RiverMark) THEN [s EXCEPT !.street = "river"]
    ELSE [s EXCEPT !.street = "preflop"]

\* the street after the line's prefix is tested
DetectStreet(s, l) ==
    IF startswith(l, FlopMark) THEN [s EXCEPT !.street = "flop"]
    ELSE IF startswith(l, TurnMark) THEN [s EXCEPT !.street = "turn"]
    ELSE IF startswith(l, RiverMark) THEN [s EXCEPT !.street = "river"]
    ELSE s

\* PreflopAction without the test `if player not in hand_preflop`
PreflopAction_Overwrites(s, l, action) ==
    IF ~contains(action, l) THEN s
    ELSE
    LET player == extract_player_id(l)
        s1 == IF s.raise_count = 1
              THEN [s EXCEPT !.possible_3bettors = @ \cup {player}]
              ELSE s
        s2 == [s1 EXCEPT !.hand_preflop = Put(@, player, action)]
    IN  IF action = raises
        THEN LET n  == s2.raise_count + 1
                 s3 == [s2 EXCEPT !.preflop_raiser = player, !.raise_count = n]
                 s4 == IF n = 1 THEN [s3 EXCEPT !.first_raiser = player] ELSE s3
             IN  IF n = 2
                 THEN [s4 EXCEPT !.hand_threebet = Put(@, player, action)]
                 ELSE s4
        ELSE IF s2.raise_count = 2 /\ player = s2.first_raiser
        THEN [s2 EXCEPT !.hand_threebet = Put(@, player, action)]
        ELSE s2

\* PreflopAction with `if raise_count >= 1` for `if raise_count == 1`
PreflopAction_AnyRaise(s, l, action) ==
    IF ~contains(action, l) THEN s
    ELSE
    LET player == extract_player_id(l)
        s1 == IF s.raise_count >= 1
              THEN [s EXCEPT !.possible_3bettors = @ \cup {player}]
              ELSE s
        s2 == IF player \notin DOMAIN s1.hand_preflop
              THEN [s1 EXCEPT !.hand_preflop = Put(@, player, action)]
              ELSE s1
    IN  IF action = raises
        THEN LET n  == s2.raise_count + 1
                 s3 == [s2 EXCEPT !.preflop_raiser = player, !.raise_count = n]
                 s4 == IF n = 1 THEN [s3 EXCEPT !.first_raiser = player] ELSE s3
             IN  IF n = 2
                 THEN [s4 EXCEPT !.hand_threebet = Put(@, player, action)]
                 ELSE s4
        ELSE IF s2.raise_count = 2 /\ player = s2.first_raiser
        THEN [s2 EXCEPT !.hand_threebet = Put(@, player, action)]
        ELSE s2

\* PreflopAction with `if raise_count == 1` tested after the raise is counted
PreflopAction_EligibleLate(s, l, action) ==
    IF ~contains(action, l) THEN s
    ELSE
    LET player == extract_player_id(l)
        s2 == IF player \notin DOMAIN s.hand_preflop
              THEN [s EXCEPT !.hand_preflop = Put(@, player, action)]
              ELSE s
        s5 == IF action = raises
              THEN LET n  == s2.raise_count + 1
                       s3 == [s2 EXCEPT !.preflop_raiser = player, !.raise_count = n]
                       s4 == IF n = 1 THEN [s3 EXCEPT !.first_raiser = player] ELSE s3
                   IN  IF n = 2
                       THEN [s4 EXCEPT !.hand_threebet = Put(@, player, action)]
                       ELSE s4
              ELSE IF s2.raise_count = 2 /\ player = s2.first_raiser
              THEN [s2 EXCEPT !.hand_threebet = Put(@, player, action)]
              ELSE s2
    IN  IF s5.raise_count = 1
        THEN [s5 EXCEPT !.possible_3bettors = @ \cup {player}]
        ELSE s5

\* PreflopAction without the test `if action in log`
PreflopAction_AnyLine(s, l, action) ==
    LET player == extract_player_id(l)
        s1 == IF s.raise_count = 1
              THEN [s EXCEPT !.possible_3bettors = @ \cup {player}]
              ELSE s
        s2 == IF player \notin DOMAIN s1.hand_preflop
              THEN [s1 EXCEPT !.hand_preflop = Put(@, player, action)]
              ELSE s1
    IN  IF action = raises
        THEN LET n  == s2.raise_count + 1
                 s3 == [s2 EXCEPT !.preflop_raiser = player, !.raise_count = n]
                 s4 == IF n = 1 THEN [s3 EXCEPT !.first_raiser = player] ELSE s3
             IN  IF n = 2
                 THEN [s4 EXCEPT !.hand_threebet = Put(@, player, action)]
                 ELSE s4
        ELSE IF s2.raise_count = 2 /\ player = s2.first_raiser
        THEN [s2 EXCEPT !.hand_threebet = Put(@, player, action)]
        ELSE s2

\* PreflopAction with `elif raise_count >= 2` for `elif raise_count == 2`
PreflopAction_FromTwo(s, l, action) ==
    IF ~contains(action, l) THEN s
    ELSE
    LET player == extract_player_id(l)
        s1 == IF s.raise_count = 1
              THEN [s EXCEPT !.possible_3bettors = @ \cup {player}]
              ELSE s
        s2 == IF player \notin DOMAIN s1.hand_preflop
              THEN [s1 EXCEPT !.hand_preflop = Put(@, player, action)]
              ELSE s1
    IN  IF action = raises
        THEN LET n  == s2.raise_count + 1
                 s3 == [s2 EXCEPT !.preflop_raiser = player, !.raise_count = n]
                 s4 == IF n = 1 THEN [s3 EXCEPT !.first_raiser = player] ELSE s3
             IN  IF n = 2
                 THEN [s4 EXCEPT !.hand_threebet = Put(@, player, action)]
                 ELSE s4
        ELSE IF s2.raise_count >= 2 /\ player = s2.first_raiser
        THEN [s2 EXCEPT !.hand_threebet = Put(@, player, action)]
        ELSE s2

\* the body of `for action in actions` for one action, preflop
PreflopAction(s, l, action) ==
    IF ~contains(action, l) THEN s
    ELSE
    LET player == extract_player_id(l)
        s1 == IF s.raise_count = 1
              THEN [s EXCEPT !.possible_3bettors = @ \cup {player}]
              ELSE s
        s2 == IF player \notin DOMAIN s1.hand_preflop
              THEN [s1 EXCEPT !.hand_preflop = Put(@, player, action)]
              ELSE s1
    IN  IF action = raises
        THEN LET n  == s2.raise_count + 1
                 s3 == [s2 EXCEPT !.preflop_raiser = player, !.raise_count = n]
                 s4 == IF n = 1 THEN [s3 EXCEPT !.first_raiser = player] ELSE s3
             IN  IF n = 2
                 THEN [s4 EXCEPT !.hand_threebet = Put(@, player, action)]
                 ELSE s4
        ELSE IF s2.raise_count = 2 /\ player = s2.first_raiser
        THEN [s2 EXCEPT !.hand_threebet = Put(@, player, action)]
        ELSE s2

\* FlopAction without `has_cbet = False` after a recorded "raises"
FlopAction_RaiseKeepsCbet(s, l, action) ==
    IF ~contains(action, l) THEN s
    ELSE
    LET player == extract_player_id(l)
    IN  IF player = s.preflop_raiser /\ (action = bets \/ action = checks)
        THEN [s EXCEPT !.hand_cbet = Put(@, player, action),
                       !.has_cbet = IF action = bets THEN TRUE ELSE @]
        ELSE IF s.has_cbet
        THEN [s EXCEPT !.hand_cbet = Put(@, player, action)]
        ELSE s

\* the body of `for action in flop_actions` for one action, on the flop
FlopAction(s, l, action) ==
    IF ~contains(action, l) THEN s
    ELSE
    LET player == extract_player_id(l)
    IN  IF player = s.preflop_raiser /\ (action = bets \/ action = checks)
        THEN [s EXCEPT !.hand_cbet = Put(@, player, action),
                       !.has_cbet = IF action = bets THEN TRUE ELSE @]
        ELSE IF s.has_cbet
        THEN [s EXCEPT !.hand_cbet = Put(@, player, action),
                       !.has_cbet = IF action = raises THEN FALSE ELSE @]
        ELSE s

\* `for action in actions`, from the k-th action on
RECURSIVE ForEachPreflopAction(_, _, _)
ForEachPreflopAction(s, l, k) ==
    IF k > Len(actions) THEN s
    ELSE ForEachPreflopAction(PreflopAction(s, l, actions[k]), l, k + 1)

\* `for action in flop_actions`, from the k-th action on
RECURSIVE ForEachFlopAction(_, _, _)
ForEachFlopAction(s, l, k) ==
    IF k > Len(flop_actions) THEN s
    ELSE ForEachFlopAction(FlopAction(s, l, flop_actions[k]), l, k + 1)

\* whether l contains one of the keywords acts
HasAny(acts, l) == \E k \in DOMAIN acts : contains(acts[k], l)

\* the first and the last of the keywords acts, in their order, that l contains
FirstMatch(acts, l) ==
    acts[CHOOSE k \in DOMAIN acts :
            /\ contains(acts[k], l)
            /\ \A m \in 1..(k - 1) : ~contains(acts[m], l)]
LastMatch(acts, l) ==
    acts[CHOOSE k \in DOMAIN acts :
            /\ contains(acts[k], l)
            /\ \A m \in (k + 1)..Len(acts) : ~contains(acts[m], l)]

\* PreflopScan with a `break` after the first keyword found
PreflopScan_FirstOnly(s, l) ==
    IF s.street = "preflop" /\ HasAny(actions, l)
    THEN PreflopAction(s, l, FirstMatch(actions, l))
    ELSE s

\* FlopScan with a `break` after the first keyword found
FlopScan_FirstOnly(s, l) ==
    IF s.street = "flop" /\ HasAny(flop_actions, l)
    THEN FlopAction(s, l, FirstMatch(flop_actions, l))
    ELSE s

\* PreflopScan without the test `if street == "preflop"`
PreflopScan_AnyStreet(s, l) == ForEachPreflopAction(s, l, 1)

PreflopScan(s, l) ==
    IF s.street = "preflop" THEN ForEachPreflopAction(s, l, 1)
    ELSE s

\* FlopScan with `if street != "preflop"` for `if street == "flop"`
FlopScan_AfterPreflop(s, l) ==
    IF s.street # "preflop" THEN ForEachFlopAction(s, l, 1)
    ELSE s

FlopScan(s, l) ==
    IF s.street = "flop" THEN ForEachFlopAction(s, l, 1)
    ELSE s

\* ShowdownScan with `elif` for the second `if`: a line that shows does not
\* collect
ShowdownScan_Elif(s, l) ==
    IF contains(ShowsA, l)
    THEN [s EXCEPT !.players_shown = @ \cup {extract_player_id(l)}]
    ELSE IF contains(Collected, l) /\ contains(FromPot, l)
    THEN [s EXCEPT !.players_collected = @ \cup {extract_player_id(l)}]
    ELSE s

\* ShowdownScan with the test `if street == "river"` before the two tests
ShowdownScan_RiverOnly(s, l) ==
    IF s.street # "river" THEN s
    ELSE
    LET s1 == IF contains(ShowsA, l)
              THEN [s EXCEPT !.players_shown = @ \cup {extract_player_id(l)}]
              ELSE s
    IN  IF contains(Collected, l) /\ contains(FromPot, l)
        THEN [s1 EXCEPT !.players_collected = @ \cup {extract_player_id(l)}]
        ELSE s1

ShowdownScan(s, l) ==
    LET s1 == IF contains(ShowsA, l)
              THEN [s EXCEPT !.players_shown = @ \cup {extract_player_id(l)}]
              ELSE s
    IN  IF contains(Collected, l) /\ contains(FromPot, l)
        THEN [s1 EXCEPT !.players_collected = @ \cup {extract_player_id(l)}]
        ELSE s1

\* LogStep with the street detected after the line is scanned
LogStep_StreetLast(s, l) ==
    DetectStreet(ShowdownScan(FlopScan(PreflopScan(s, l), l), l), l)

\* the body of `for log in hand`
LogStep(s, l) == ShowdownScan(FlopScan(PreflopScan(DetectStreet(s, l), l), l), l)

SetHandState(s) ==
    /\ hand_preflop' = s.hand_preflop
    /\ raise_count' = s.raise_count
    /\ hand_threebet' = s.hand_threebet
    /\ hand_cbet' = s.hand_cbet
    /\ street' = s.street
    /\ first_raiser' = s.first_raiser
    /\ preflop_raiser' = s.preflop_raiser
    /\ possible_3bettors' = s.possible_3bettors
    /\ has_cbet' = s.has_cbet
    /\ players_shown' = s.players_shown
    /\ players_collected' = s.players_collected

ScanLog(l) ==
    /\ SetHandState(LogStep(HandState, l))
    /\ log' = l
    /\ log_no' = log_no + 1
    /\ nlogs' = nlogs + 1


(***************************************************************************)
(* process_hands: the end of a hand.                                       *)
(***************************************************************************)
ZeroActions     == [a \in Range(actions) |-> 0]
ZeroFlopActions == [a \in Range(flop_actions) |-> 0]

\* for player, action in hand_d.items(): d[player][action] += 1
AddActions(d, hand_d, zero) ==
    [p \in DOMAIN d \cup DOMAIN hand_d |->
        IF p \in DOMAIN hand_d
        THEN [Get(d, p, zero) EXCEPT ![hand_d[p]] = @ + 1]
        ELSE d[p]]

\* for player in players: d[player] += 1
AddOne(d, players) ==
    [p \in DOMAIN d \cup players |->
        IF p \in players THEN Get(d, p, 0) + 1 ELSE d[p]]

\* Winners without the test that the collector has shown
Winners_AllCollectors(shown, collected) == collected

\* the players counted as winners of the showdown of the hand
Winners(shown, collected) == {p \in shown : p \in collected}

\* Aggregate with the preflop histogram counting calls and raises only
Aggregate_SkipsFolds ==
    /\ preflop' =
          AddActions(preflop,
                     [p \in {q \in DOMAIN hand_preflop : hand_preflop[q] # folds}
                        |-> hand_preflop[p]],
                     ZeroActions)
    /\ threebets' = AddActions(threebets, hand_threebet, ZeroActions)
    /\ cbets' = AddActions(cbets, hand_cbet, ZeroFlopActions)
    /\ can_3bet' = AddOne(can_3bet, possible_3bettors)
    /\ IF players_shown # {}
       THEN /\ showdowns' = AddOne(showdowns, players_shown)
            /\ showdown_wins' =
                  AddOne(showdown_wins, Winners(players_shown, players_collected))
       ELSE UNCHANGED <<showdowns, showdown_wins>>

Aggregate ==
    /\ preflop' = AddActions(preflop, hand_preflop, ZeroActions)
    /\ threebets' = AddActions(threebets, hand_threebet, ZeroActions)
    /\ cbets' = AddActions(cbets, hand_cbet, ZeroFlopActions)
    /\ can_3bet' = AddOne(can_3bet, possible_3bettors)
    /\ IF players_shown # {}
       THEN /\ showdowns' = AddOne(showdowns, players_shown)
            /\ showdown_wins' =
                  AddOne(showdown_wins, Winners(players_shown, players_collected))
       ELSE UNCHANGED <<showdowns, showdown_wins>>

\* HandEnd without the reset of street for the next hand
HandEnd_KeepsStreet ==
    /\ Aggregate
    /\ SetHandState([NewHand EXCEPT !.street = street])
    /\ hand_no' = hand_no + 1
    /\ log_no' = 1
    /\ UNCHANGED <<log, nlogs>>

\* the hand is aggregated and the loop goes to the next hand
HandEnd ==
    /\ Aggregate
    /\ SetHandState(NewHand)
    /\ hand_no' = hand_no + 1
    /\ log_no' = 1
    /\ UNCHANGED <<log, nlogs>>

(***************************************************************************)
(* process_hands called by the pipeline, on the hands of parse_hands.      *)
(***************************************************************************)
ProcessLog ==
    /\ pc = "process_hands"
    /\ hand_no <= Len(hands)
    /\ log_no <= Len(hands[hand_no])
    /\ ScanLog(hands[hand_no][log_no])
    /\ UNCHANGED <<pc, parseVars, hand_no, counters, stats, callVars>>

EndHand ==
    /\ pc = "process_hands"
    /\ hand_no <= Len(hands)
    /\ log_no > Len(hands[hand_no])
    /\ HandEnd
    /\ UNCHANGED <<pc, parseVars, stats, callVars>>

ProcessReturn ==
    /\ pc = "process_hands"
    /\ hand_no > Len(hands)
    /\ pc' = "calculate_stats"
    /\ UNCHANGED <<parseVars, loopVars, handVars, counters, stats, callVars>>

(***************************************************************************)
(* calculate_stats.                                                        *)
(***************************************************************************)
\* round(num / den) to an integer, halves to the even neighbour; num >= 0, den > 0
round(num, den) ==
    LET q == num \div den
        r == num % den
    IN  IF 2 * r < den THEN q
        ELSE IF 2 * r > den THEN q + 1
        ELSE IF q % 2 = 0 THEN q ELSE q + 1

\* tightness_score with the weights 0.5, 0.3, 0.3
tightness_score_Weights(vpip, pfr, threebet) ==
    5 * (100 - vpip) + 3 * (100 - pfr) + 3 * (100 - threebet)

\* tightness_score in tenths: the weights 0.5, 0.3 and 0.2 of 1 - vpip/100,
\* 1 - pfr/100 and 1 - threebet/100, times 100, a whole number of tenths
tightness_score(vpip, pfr, threebet) ==
    5 * (100 - vpip) + 3 * (100 - pfr) + 2 * (100 - threebet)

\* the stats of one player; the two showdown percentages in hundredths of a
\* percent and the tightness score in tenths
PlayerStats(player) ==
    LET player_actions == preflop[player]
        num_hands == player_actions[folds] + player_actions[calls]
                        + player_actions[raises]
        vpip == IF num_hands > 0
                THEN round(100 * (player_actions[calls] + player_actions[raises]),
                           num_hands)
                ELSE 0
        pfr  == IF num_hands > 0
                THEN round(100 * player_actions[raises], num_hands)
                ELSE 0
        threebet ==
            IF player \in DOMAIN threebets
            THEN IF Get(can_3bet, player, 0) > 0
                 THEN round(100 * threebets[player][raises], can_3bet[player])
                 ELSE 0
            ELSE 0
        player_showdowns == IF player \in DOMAIN showdowns
                            THEN showdowns[player] ELSE 0
        player_showdown_wins == IF player \in DOMAIN showdown_wins
                                THEN showdown_wins[player] ELSE 0
    IN  [ total_hands |-> num_hands,
          vpip |-> vpip,
          pfr |-> pfr,
          threebet |-> threebet,
          went_to_showdown_pct |->
              IF num_hands > 0 THEN round(10000 * player_showdowns, num_hands)
              ELSE 0,
          showdown_win_pct |->
              IF player_showdowns > 0
              THEN round(10000 * player_showdown_wins, player_showdowns)
              ELSE 0,
          tightness_score |-> tightness_score(vpip, pfr, threebet) ]

\* the keys whose can_3bet is read: the read of a defaultdict creates the key
Read3bet == DOMAIN preflop \cap DOMAIN threebets

\* CalculateStats with the loop over threebets.items() for preflop.items()
CalculateStats_ThreebetPlayers ==
    /\ pc = "calculate_stats"
    /\ stats' = [player \in DOMAIN threebets |-> PlayerStats(player)]
    /\ can_3bet' = [p \in DOMAIN can_3bet \cup Read3bet |-> Get(can_3bet, p, 0)]
    /\ pc' = "done"
    /\ UNCHANGED <<parseVars, loopVars, handVars, preflop, threebets, cbets,
                   showdowns, showdown_wins, callVars>>

CalculateStats ==
    /\ pc = "calculate_stats"
    /\ stats' = [player \in DOMAIN preflop |-> PlayerStats(player)]
    /\ can_3bet' = [p \in DOMAIN can_3bet \cup Read3bet |-> Get(can_3bet, p, 0)]
    /\ pc' = "done"
    /\ UNCHANGED <<parseVars, loopVars, handVars, preflop, threebets, cbets,
                   showdowns, showdown_wins, callVars>>

(***************************************************************************)
(* The pipeline of main: parse_hands, process_hands, calculate_stats.      *)
(***************************************************************************)
InitMain ==
    /\ logs = <<>>
    /\ hands = <<>>
    /\ in_hand = FALSE
    /\ current_hand = <<>>
    /\ hand_no = 1
    /\ log_no = 1
    /\ log = <<>>
    /\ nlogs = 0
    /\ hand_preflop = NewHand.hand_preflop
    /\ raise_count = NewHand.raise_count
    /\ hand_threebet = NewHand.hand_threebet
    /\ hand_cbet = NewHand.hand_cbet
    /\ street = NewHand.street
    /\ first_raiser = NewHand.first_raiser
    /\ preflop_raiser = NewHand.preflop_raiser
    /\ possible_3bettors = NewHand.possible_3bettors
    /\ has_cbet = NewHand.has_cbet
    /\ players_shown = NewHand.players_shown
    /\ players_collected = NewHand.players_collected
    /\ preflop = EmptyDict
    /\ threebets = EmptyDict
    /\ cbets = EmptyDict
    /\ can_3bet = EmptyDict
    /\ showdowns = EmptyDict
    /\ showdown_wins = EmptyDict
    /\ stats = EmptyDict
    /\ first_run = <<>>
    /\ player_id = <<>>

\* remove_duplicate_files has not been called
InitFiles ==
    /\ dir_before = EmptyDict
    /\ files = <<>>
    /\ file_no = 1
    /\ seen_hashes = EmptyDict
    /\ duplicates_removed = 0
    /\ runs = 0

InitRest == InitMain /\ dir = EmptyDict /\ InitFiles

Init == pc = "parse_hands" /\ InitRest

Next ==
    \/ ParseLog
    \/ ParseReturn
    \/ ProcessLog
    \/ EndHand
    \/ ProcessReturn
    \/ CalculateStats

Spec == Init /\ [][Next]_vars


(***************************************************************************)
(* process_hands called on any hands: the lines of each hand are chosen    *)
(* one by one.                                                             *)
(***************************************************************************)
FeedFrom(lines) ==
    /\ pc = "process_hands"
    /\ hand_no <= MaxHands
    /\ nlogs < MaxHandLogs
    /\ \E l \in lines : ScanLog(l)
    /\ UNCHANGED <<pc, parseVars, hand_no, counters, stats, callVars>>

FeedLog == FeedFrom(HandLogs)

FeedShowdownLog == FeedFrom(ShowdownLogs)

\* parse_hands returns no empty hand, so a hand ends after at least one line
FeedEndHand ==
    /\ pc = "process_hands"
    /\ hand_no <= MaxHands
    /\ log_no > 1
    /\ HandEnd
    /\ UNCHANGED <<pc, parseVars, stats, callVars>>

FeedReturn ==
    /\ pc = "process_hands"
    /\ log_no = 1
    /\ pc' = "calculate_stats"
    /\ UNCHANGED <<parseVars, loopVars, handVars, counters, stats, callVars>>

InitHands == pc = "process_hands" /\ InitRest

NextHands ==
    \/ FeedLog
    \/ FeedEndHand
    \/ FeedReturn
    \/ CalculateStats

SpecHands == InitHands /\ [][NextHands]_vars


NextShowdown ==
    \/ FeedShowdownLog
    \/ FeedEndHand
    \/ FeedReturn
    \/ CalculateStats

SpecShowdown == InitHands /\ [][NextShowdown]_vars


(***************************************************************************)
(* The claims about parse_hands, checked under Spec.                       *)
(***************************************************************************)
RECURSIVE Flatten(_)
Flatten(hs) == IF hs = <<>> THEN <<>> ELSE Head(hs) \o Flatten(Tail(hs))

IsStart(l) == startswith(l, StartMark)
IsEnd(l)   == startswith(l, EndMark)

P1Folds == P1 \o Sp \o folds
P1Shows == QP1 \o Sp \o ShowsA

\* C4: no hand returned by parse_hands contains a line beginning with
\* "-- starting" or "-- ending", also when a "-- starting" line arrives while
\* a hand is open.
C4_NoMarkerInHands ==
    \A h \in DOMAIN hands : \A k \in DOMAIN hands[h] :
        ~IsStart(hands[h][k]) /\ ~IsEnd(hands[h][k])

\* whether every "-- starting" line read is the last line read or is followed
\* at once by a "-- ending" line
OnlyEmptyPairs ==
    \A k \in DOMAIN logs :
        IsStart(logs[k]) => (k = Len(logs) \/ IsEnd(logs[k + 1]))

\* C5: parse_hands never emits an empty hand; when every "-- starting" line
\* is followed at once by a "-- ending" line no hand is emitted at all and no
\* player gets a Total Hands.
C5_NoEmptyHand ==
    /\ \A h \in DOMAIN hands : hands[h] # <<>>
    /\ OnlyEmptyPairs => (hands = <<>> /\ preflop = EmptyDict /\ stats = EmptyDict)

\* C5's case: an empty pair and an ending met while nothing is collected,
\* around one real hand, after the whole pipeline
C5_Witness ==
    /\ pc = "done"
    /\ logs = <<StartMark, EndMark, EndMark, StartMark, P1Folds, EndMark>>
    /\ hands = <<(<<P1Folds>>)>>
    /\ stats[P1].total_hands = 1

\* the positions of the lines read that lie in a hand that is open (a start
\* before them, no ending since) and that is ended later
KeptPositions ==
    {k \in DOMAIN logs :
        /\ ~IsEnd(logs[k])
        /\ \E b \in 1..(k - 1) :
              /\ IsStart(logs[b])
              /\ \A m \in (b + 1)..(k - 1) : ~IsEnd(logs[m])
        /\ \E e \in (k + 1)..Len(logs) : IsEnd(logs[e])}

\* the lines of s at the positions of ps, in the order of s
RECURSIVE Pick(_, _, _)
Pick(s, ps, k) ==
    IF k > Len(s) THEN <<>>
    ELSE (IF k \in ps THEN <<s[k]>> ELSE <<>>) \o Pick(s, ps, k + 1)

\* C6: the lines of the emitted hands are exactly the lines read inside an
\* open hand that is ended later, in their input order; every other line is
\* discarded.
C6_OnlyLinesOfClosedHands ==
    Flatten(hands) = Pick(logs, KeptPositions, 1)

\* C6's case: lines before the first start, between an ending and the next
\* start and after a start that is never ended are dropped, one line is kept
C6_Witness ==
    /\ logs = <<P1Folds, StartMark, P1Shows, EndMark, P1Folds, StartMark, P1Folds>>
    /\ hands = <<(<<P1Shows>>)>>
    /\ current_hand = <<P1Folds>>


(***************************************************************************)
(* The claims about process_hands, checked under SpecHands and             *)
(* SpecShowdown.  A step that reads a line increases nlogs; a step that    *)
(* ends a hand increases hand_no.                                          *)
(***************************************************************************)
\* whether the line l begins with a street marker
IsStreetLine(l) ==
    startswith(l, FlopMark) \/ startswith(l, TurnMark) \/ startswith(l, RiverMark)

ReadsLog == nlogs' = nlogs + 1
EndsHand == hand_no' = hand_no + 1

\* d[p][a] of a dict of histograms, 0 when p has no entry
Count(d, p, a) == IF p \in DOMAIN d THEN d[p][a] ELSE 0

\* d[p] of a dict of numbers, 0 when p has no entry
Count0(d, p) == IF p \in DOMAIN d THEN d[p] ELSE 0

\* the histogram with 1 for the action a and 0 for the other actions of acts
One(acts, a) == [b \in Range(acts) |-> IF b = a THEN 1 ELSE 0]

P1Raises   == P1 \o Sp \o raises
P1Calls    == QP1 \o Sp \o calls
P2Folds    == P2 \o Sp \o folds
PlayerRaisesCalls == PRaises \o Sp \o calls
FlopBetsRaises    == FlopMark \o Sp \o bets \o Sp \o raises

C1_Step ==
    /\ ReadsLog =>
          /\ DOMAIN hand_preflop \subseteq DOMAIN hand_preflop'
          /\ \A p \in DOMAIN hand_preflop' :
                IF p \in DOMAIN hand_preflop
                THEN hand_preflop'[p] = hand_preflop[p]
                ELSE /\ street' = "preflop"
                     /\ p = extract_player_id(log')
                     /\ hand_preflop'[p] = FirstMatch(actions, log')
    /\ EndsHand =>
          \A p \in DOMAIN preflop' \cup DOMAIN hand_preflop :
             \A a \in Range(actions) :
                Count(preflop', p, a) - Count(preflop, p, a) =
                   IF p \in DOMAIN hand_preflop /\ hand_preflop[p] = a THEN 1 ELSE 0

\* C1: in a hand the preflop action of a player is set by the player's first
\* line handled preflop and no later line changes it, and the end of the hand
\* adds 1 to exactly that bucket of the player's preflop histogram and
\* nothing to any other.
C1_FirstPreflopActionCounts == [][C1_Step]_vars

\* C1's case: p1 raises and later calls in one hand; the hand counts a raise
C1_Witness ==
    /\ hand_no = 2
    /\ nlogs = 2
    /\ log = P1Calls
    /\ preflop = (P1 :> One(actions, raises))

C2_Step ==
    (ReadsLog /\ startswith(log', FlopMark)) =>
        /\ street' = "flop"
        /\ UNCHANGED <<hand_preflop, raise_count, hand_threebet, first_raiser,
                       preflop_raiser, possible_3bettors>>
        /\ LET t == FlopScan([HandState EXCEPT !.street = "flop"], log')
           IN  hand_cbet' = t.hand_cbet /\ has_cbet' = t.has_cbet

\* C2: a line beginning with "Flop" sets the street to flop before it is
\* scanned: its keywords are handled by the flop handling in the same pass
\* and change nothing the preflop handling writes, whatever the street was.
C2_FlopLineScannedAsFlop == [][C2_Step]_vars

\* C2's case: the street is preflop, the player "flop" has raised, and the
\* line "Flop bets raises" is recorded as that player's flop action without
\* counting as a second preflop raise
C2_Witness ==
    /\ nlogs = 2
    /\ log_no = 3
    /\ log = FlopBetsRaises
    /\ street = "flop"
    /\ raise_count = 1
    /\ preflop_raiser = PFlop
    /\ hand_cbet = (PFlop :> raises)
    /\ hand_threebet = EmptyDict

\* the line handled with only the first keyword found acted upon, per category
FirstOnlyStep(s, l) ==
    ShowdownScan(FlopScan_FirstOnly(PreflopScan_FirstOnly(DetectStreet(s, l), l), l), l)

C3_FirstOnly ==
    ReadsLog =>
        LET t == FirstOnlyStep(HandState, log')
        IN  /\ raise_count' = t.raise_count
            /\ preflop_raiser' = t.preflop_raiser
            /\ first_raiser' = t.first_raiser
            /\ possible_3bettors' = t.possible_3bettors
            /\ hand_threebet' = t.hand_threebet
            /\ hand_cbet' = t.hand_cbet
            /\ has_cbet' = t.has_cbet

\* C3, as claimed: of several keywords of a category in one line only the
\* first in iteration order is acted upon; the others change none of
\* raise_count, preflop_raiser, first_raiser, possible_3bettors,
\* threebet_action, cbet_action, has_cbet.
C3_OnlyFirstKeywordActs == [][C3_FirstOnly]_vars

C3_Step ==
    ReadsLog =>
        LET l == log'
            player == extract_player_id(l)
        IN  /\ (street' = "preflop" /\ contains(raises, l)) =>
                  /\ raise_count' = raise_count + 1
                  /\ preflop_raiser' = player
            /\ (street' = "preflop" /\ HasAny(actions, l)
                   /\ player \notin DOMAIN hand_preflop) =>
                  hand_preflop'[player] = FirstMatch(actions, l)
            /\ (street' = "flop" /\ contains(bets, l) /\ player = preflop_raiser) =>
                  /\ hand_cbet'[player] = LastMatch(flop_actions, l)
                  /\ has_cbet' = ~contains(raises, l)

\* C3, amended: every keyword of a category that the line contains is acted
\* upon, in iteration order.  A preflop line containing "raises" adds 1 to
\* raise_count and sets preflop_raiser whatever other keywords it contains; a
\* flop line of the preflop raiser containing "bets" records the last keyword
\* it contains and leaves has_cbet true iff it does not contain "raises".
\* Only the preflop action of a player who has none yet is the first keyword.
C3_EveryKeywordActs == [][C3_Step]_vars

\* C3's case: the player named "raises" calls as the first line of a hand:
\* "calls" is recorded as the preflop action and "raises" counts as a raise
C3_Witness ==
    /\ log_no = 2
    /\ log = PlayerRaisesCalls
    /\ hand_preflop = (PRaises :> calls)
    /\ raise_count = 1
    /\ preflop_raiser = PRaises
    /\ first_raiser = PRaises


\* the keyword the line l writes to hand_threebet for its player, <<>> if none
ThreebetOf(l) ==
    LET player == extract_player_id(l)
    IN  IF raise_count = 1 /\ contains(raises, l) THEN raises
        ELSE IF raise_count = 2 /\ player = first_raiser /\ contains(calls, l)
        THEN calls
        ELSE IF raise_count = 2 /\ player = first_raiser /\ contains(folds, l)
        THEN folds
        ELSE <<>>

\* whether the flop line l records its keyword kw in hand_cbet
CbetRecorded(l, kw) ==
    LET player == extract_player_id(l)
    IN  /\ contains(kw, l)
        /\ \/ player = preflop_raiser /\ kw \in {bets, checks}
           \/ has_cbet
           \/ player = preflop_raiser /\ contains(bets, l) /\ kw # bets

\* the keyword the flop line l leaves in hand_cbet for its player, <<>> if none
CbetOf(l) ==
    LET rec == {k \in DOMAIN flop_actions : CbetRecorded(l, flop_actions[k])}
    IN  IF rec = {} THEN <<>>
        ELSE flop_actions[CHOOSE k \in rec : \A m \in rec : m <= k]

\* d' is d with the value v for the key p, written over any earlier value
Overwritten(d, dNext, p, v) ==
    /\ DOMAIN dNext = DOMAIN d \cup {p}
    /\ dNext[p] = v
    /\ \A q \in DOMAIN d : q # p => dNext[q] = d[q]

C7_Step ==
    /\ ReadsLog =>
          possible_3bettors' = possible_3bettors \cup
              (IF street' = "preflop" /\ raise_count = 1 /\ HasAny(actions, log')
               THEN {extract_player_id(log')} ELSE {})
    /\ EndsHand =>
          \A p \in DOMAIN can_3bet' \cup possible_3bettors :
              Count0(can_3bet', p) - Count0(can_3bet, p) =
                  IF p \in possible_3bettors THEN 1 ELSE 0

\* C7: a hand adds exactly 1 to can_3bet of a player who has a line handled
\* preflop while raise_count is 1, and 0 for any other player, however many
\* such lines the player has.
C7_EligibleOncePerHand == [][C7_Step]_vars

\* C7's case: p1 raises, then p1 calls and p2 folds while raise_count is 1, in
\* a hand of four lines that ends with another call of p1
C7_Witness ==
    /\ hand_no = 2
    /\ nlogs = 4
    /\ log = P1Calls
    /\ preflop = (P1 :> One(actions, raises) @@ P2 :> One(actions, folds))
    /\ can_3bet = (P1 :> 1 @@ P2 :> 1)
    /\ threebets = EmptyDict

C8_Step ==
    /\ ReadsLog =>
          LET l == log'
              player == extract_player_id(l)
          IN  /\ IF street' = "preflop" /\ HasAny(actions, l) /\ ThreebetOf(l) # <<>>
                 THEN Overwritten(hand_threebet, hand_threebet', player, ThreebetOf(l))
                 ELSE hand_threebet' = hand_threebet
              /\ IF street' = "flop" /\ HasAny(flop_actions, l) /\ CbetOf(l) # <<>>
                 THEN Overwritten(hand_cbet, hand_cbet', player, CbetOf(l))
                 ELSE hand_cbet' = hand_cbet
    /\ EndsHand =>
          /\ \A p \in DOMAIN threebets' \cup DOMAIN hand_threebet :
                \A a \in Range(actions) :
                   Count(threebets', p, a) - Count(threebets, p, a) =
                      IF p \in DOMAIN hand_threebet /\ hand_threebet[p] = a
                      THEN 1 ELSE 0
          /\ \A p \in DOMAIN cbets' \cup DOMAIN hand_cbet :
                \A a \in Range(flop_actions) :
                   Count(cbets', p, a) - Count(cbets, p, a) =
                      IF p \in DOMAIN hand_cbet /\ hand_cbet[p] = a
                      THEN 1 ELSE 0

\* C8: every line that qualifies writes its action over the player's
\* threebet action or cbet action of the hand, so that the last qualifying
\* line decides, and the end of the hand adds 1 to that one bucket of the
\* player's threebet and cbet histograms: at most 1 per histogram and hand.
C8_LastActionCounts == [][C8_Step]_vars

\* C8's case: p1 raises twice (the second raise is recorded as p1's threebet
\* action) and then calls: the hand counts the call, not the raise
C8_Witness ==
    /\ hand_no = 2
    /\ nlogs = 3
    /\ log = P1Calls
    /\ preflop = (P1 :> One(actions, raises))
    /\ threebets = (P1 :> One(actions, calls))


P1Collected == P1 \o Sp \o Collected \o Sp \o FromPot

\* C9: showdown_wins[p] <= showdowns[p] for every player p, after any hands,
\* also when several players collect and when a player collects without
\* showing.
C9_WinsAtMostShowdowns ==
    \A p \in DOMAIN showdown_wins :
        p \in DOMAIN showdowns /\ showdown_wins[p] <= showdowns[p]

\* C9's case: p1 and p2 both show and collect in the first hand, and p1
\* collects without showing in the second hand, which counts nothing
C9_Witness ==
    /\ hand_no = 3
    /\ nlogs = 4
    /\ log = P1Collected
    /\ showdowns = (P1 :> 1 @@ P2 :> 1)
    /\ showdown_wins = (P1 :> 1 @@ P2 :> 1)

P2Raises == P2 \o Sp \o raises

\* C11: in every aggregate process_hands reaches, the raises bucket of a
\* player's threebet histogram never exceeds the player's can_3bet, and every
\* player of the output has VPIP, PFR and 3Bet in [0,100].
C11_RatesInRange ==
    /\ \A p \in DOMAIN threebets :
           threebets[p][raises] <= Count0(can_3bet, p)
    /\ pc = "done" =>
           \A p \in DOMAIN stats :
              /\ stats[p].vpip \in 0..100
              /\ stats[p].pfr \in 0..100
              /\ stats[p].threebet \in 0..100

\* C11's case: p2 re-raises the raise of p1 in the first hand and re-raises
\* without being able to in no hand: 3Bet is 100 for p2 and 0 for p1, who
\* answers the re-raise with a call
C11_Witness ==
    /\ pc = "done"
    /\ log = P1Calls
    /\ threebets = (P1 :> One(actions, calls) @@ P2 :> One(actions, raises))
    /\ can_3bet = (P1 :> 0 @@ P2 :> 1)
    /\ stats[P2].threebet = 100
    /\ stats[P1].threebet = 0
    /\ stats[P1].pfr = 100


C19_Step ==
    (ReadsLog /\ street' \in {"turn", "river"}) =>
        UNCHANGED <<hand_preflop, hand_threebet, hand_cbet, possible_3bettors,
                    raise_count, first_raiser, preflop_raiser, has_cbet>>

\* C19: a line read while the street is turn or river, the street that the
\* line's own prefix has set, changes none of hand_preflop, hand_threebet,
\* hand_cbet, possible_3bettors, raise_count, first_raiser, preflop_raiser
\* and has_cbet, whatever keywords it contains.
C19_TurnAndRiverNotScanned == [][C19_Step]_vars

\* C19's case: p1 raises, the turn comes, and a raise of p2 two lines later
\* is read and counts for nothing
C19_Witness ==
    /\ nlogs = 4
    /\ log_no = 5
    /\ log = P2Raises
    /\ street = "turn"
    /\ raise_count = 1
    /\ preflop_raiser = P1
    /\ hand_preflop = (P1 :> raises)
    /\ hand_cbet = EmptyDict
    /\ has_cbet = FALSE

\* whether the line l, read on the flop, is a "bets" or "checks" line of the
\* preflop raiser
RaiserActs(l) ==
    /\ extract_player_id(l) = preflop_raiser
    /\ contains(bets, l) \/ contains(checks, l)

\* whether the line l, read on the flop, has a "raises" that is recorded:
\* has_cbet is true before the line or the line is a bet of the preflop raiser
RaiseRecorded(l) ==
    /\ contains(raises, l)
    /\ has_cbet \/ (extract_player_id(l) = preflop_raiser /\ contains(bets, l))

C20_Step ==
    ReadsLog =>
        LET l == log'
            player == extract_player_id(l)
        IN  IF street' # "flop"
            THEN hand_cbet' = hand_cbet /\ has_cbet' = has_cbet
            ELSE /\ RaiserActs(l) =>
                      /\ player \in DOMAIN hand_cbet'
                      /\ contains(hand_cbet'[player], l)
                 /\ (~RaiserActs(l) /\ ~has_cbet) => hand_cbet' = hand_cbet
                 /\ (~RaiserActs(l) /\ has_cbet /\ HasAny(flop_actions, l)) =>
                      /\ player \in DOMAIN hand_cbet'
                      /\ hand_cbet'[player] = LastMatch(flop_actions, l)
                 /\ has_cbet' =
                      IF RaiseRecorded(l) THEN FALSE
                      ELSE IF RaiserActs(l) /\ contains(bets, l) THEN TRUE
                      ELSE has_cbet

\* C20: on the flop a line of the preflop raiser with "bets" or "checks" is
\* always recorded in hand_cbet and its "bets" sets has_cbet; any other line
\* is recorded only if has_cbet is true, which it is only after a bet of the
\* preflop raiser, who then has an entry in hand_cbet; a recorded "raises"
\* sets has_cbet false, and then no line is recorded but a "bets" or "checks"
\* line of the preflop raiser.  Off the flop neither hand_cbet nor has_cbet
\* changes.
C20_CbetRecording ==
    /\ [](has_cbet => (street # "preflop" /\ preflop_raiser \in DOMAIN hand_cbet))
    /\ [][C20_Step]_vars

\* C20's case: p1 raises preflop and bets on the flop, and p2 raises the bet:
\* both actions are recorded and has_cbet is false again
C20_Witness ==
    /\ nlogs = 4
    /\ log_no = 5
    /\ log = P2Raises
    /\ street = "flop"
    /\ preflop_raiser = P1
    /\ hand_cbet = (P1 :> bets @@ P2 :> raises)
    /\ has_cbet = FALSE

C21_Step ==
    /\ ReadsLog =>
          LET l == log'
              player == extract_player_id(l)
          IN  /\ players_shown' = players_shown \cup
                    (IF contains(ShowsA, l) THEN {player} ELSE {})
              /\ players_collected' = players_collected \cup
                    (IF contains(Collected, l) /\ contains(FromPot, l)
                     THEN {player} ELSE {})
    /\ EndsHand =>
          \A p \in DOMAIN showdowns' \cup DOMAIN showdown_wins'
                    \cup players_shown \cup players_collected :
             /\ Count0(showdowns', p) - Count0(showdowns, p) =
                   IF p \in players_shown THEN 1 ELSE 0
             /\ Count0(showdown_wins', p) - Count0(showdown_wins, p) =
                   IF p \in players_shown /\ p \in players_collected
                   THEN 1 ELSE 0

\* C21: a hand adds exactly 1 to showdowns[p] iff p has a line with "shows a"
\* in the hand, on any street, and exactly 1 to showdown_wins[p] iff p has
\* such a line and a line with "collected" and "from pot" in the hand, in
\* either order; a player who collects without showing gets neither count.
C21_ShowdownCounts == [][C21_Step]_vars

\* C21's case: before any street marker p1 shows and collects, on two lines,
\* and p2 collects without showing: the hand counts a showdown and a win for
\* p1 only
C21_Witness ==
    /\ hand_no = 2
    /\ nlogs = 3
    /\ log = P2 \o Sp \o Collected \o Sp \o FromPot
    /\ showdowns = (P1 :> 1)
    /\ showdown_wins = (P1 :> 1)

\* C22: every player of the output has a Tightness Score, which is
\* (1000 - 5*VPIP - 3*PFR - 2*3Bet)/10 of the player's reported VPIP, PFR and
\* 3Bet and lies in [0,100]; the score is in tenths here.
C22_TightnessFromRates ==
    pc = "done" =>
        \A p \in DOMAIN stats :
            /\ stats[p].tightness_score =
                  1000 - 5 * stats[p].vpip - 3 * stats[p].pfr
                       - 2 * stats[p].threebet
            /\ stats[p].tightness_score \in 0..(100 * 10)

\* C22's case: over two hands p1 raises once and calls once, p2 re-raises
\* once of the one time p2 could: tightness 35.0 for p1 and 0.0 for p2
C22_Witness ==
    /\ pc = "done"
    /\ hand_no = 3
    /\ DOMAIN stats = {P1, P2}
    /\ stats[P1].vpip = 100 /\ stats[P1].pfr = 50 /\ stats[P1].threebet = 0
    /\ stats[P1].tightness_score = 350
    /\ stats[P2].threebet = 100
    /\ stats[P2].tightness_score = 0

C23_Step ==
    (ReadsLog /\ (street # "preflop" \/ IsStreetLine(log'))) =>
        /\ street' # "preflop"
        /\ UNCHANGED <<hand_preflop, hand_threebet, possible_3bettors,
                       raise_count, first_raiser, preflop_raiser>>

\* C23: in a hand the street never returns to preflop: the first line that
\* begins with "Flop", "Turn" or "River" and every later line of the hand,
\* whatever markers follow in whatever order, leave hand_preflop,
\* hand_threebet, possible_3bettors, raise_count, first_raiser and
\* preflop_raiser unchanged.
C23_NeverBackToPreflop == [][C23_Step]_vars

\* C23's case: p1 raises, the flop comes within the next two lines, after
\* another marker or not, and a raise of p2 on that flop is no preflop raise
C23_Witness ==
    /\ nlogs = 4
    /\ log_no = 5
    /\ log = P2Raises
    /\ street = "flop"
    /\ raise_count = 1
    /\ preflop_raiser = P1
    /\ hand_preflop = (P1 :> raises)
    /\ hand_threebet = EmptyDict

\* the players whose threebet action the step writes anew or changes
ThreebetWritten ==
    {p \in DOMAIN hand_threebet' :
        p \notin DOMAIN hand_threebet \/ hand_threebet'[p] # hand_threebet[p]}

C24_Step ==
    ReadsLog =>
        /\ DOMAIN hand_threebet \subseteq DOMAIN hand_threebet'
        /\ raise_count >= 3 => hand_threebet' = hand_threebet
        /\ \A p \in ThreebetWritten :
              /\ street' = "preflop"
              /\ p = extract_player_id(log')
              /\ IF hand_threebet'[p] = raises
                 THEN raise_count = 1 /\ raise_count' = 2
                 ELSE /\ raise_count = 2
                      /\ p = first_raiser
                      /\ hand_threebet'[p] \in {folds, calls}
                      /\ contains(hand_threebet'[p], log')

\* C24: hand_threebet is written only for the player whose raise is the
\* second preflop raise of the hand, with the value raises, and for
\* first_raiser acting with folds or calls while raise_count is exactly 2;
\* from raise_count 3 on no line writes it, a third raise of first_raiser
\* included; no entry exists before the second raise and at most two players
\* have an entry in a hand.
C24_ThreebetWriters ==
    /\ [](/\ Cardinality(DOMAIN hand_threebet) <= 2
          /\ raise_count < 2 => hand_threebet = EmptyDict)
    /\ [][C24_Step]_vars

\* C24's case: p1 raises, p2 re-raises, p1 raises again and then calls: the
\* third raise and the call at raise_count 3 write nothing
C24_Witness ==
    /\ nlogs = 4
    /\ log_no = 5
    /\ log = P1Calls
    /\ raise_count = 3
    /\ first_raiser = P1
    /\ preflop_raiser = P1
    /\ hand_threebet = (P2 :> raises)

\* folds+calls+raises of the preflop histogram of p, 0 when p has no entry
TotalHands(p) ==
    Count(preflop, p, folds) + Count(preflop, p, calls) + Count(preflop, p, raises)

\* C25: after any hands, every player with an entry in the threebet
\* histogram or with a positive can_3bet has an entry in the preflop
\* histogram, and can_3bet[p] and the sum of the threebet histogram of p are
\* at most Total Hands of p.
C25_ThreebetWithinTotalHands ==
    /\ \A p \in DOMAIN threebets :
           /\ p \in DOMAIN preflop
           /\ threebets[p][folds] + threebets[p][calls] + threebets[p][raises]
                 <= TotalHands(p)
    /\ \A p \in DOMAIN can_3bet :
           /\ can_3bet[p] > 0 => p \in DOMAIN preflop
           /\ can_3bet[p] <= TotalHands(p)

\* C25's case: in the first hand p1 raises and p2 folds to the raise, in the
\* second p2 re-raises the raise of p1: p2 could 3-bet in both hands and did
\* in one
C25_Witness ==
    /\ pc = "calculate_stats"
    /\ hand_no = 3
    /\ nlogs = 4
    /\ preflop = (P1 :> (folds :> 0 @@ calls :> 0 @@ raises :> 2)
                   @@ P2 :> (folds :> 1 @@ calls :> 0 @@ raises :> 1))
    /\ can_3bet = (P2 :> 2)
    /\ threebets = (P2 :> One(actions, raises))

(***************************************************************************)
(* The claims about the pipeline, checked under Spec.                      *)
(***************************************************************************)
\* C10: every player of the output has Went to Showdown (%) in [0,100]: the
\* showdown count of a player never exceeds the player's Total Hands.
C10_WentToShowdownInRange ==
    pc = "done" =>
        \A p \in DOMAIN stats :
            /\ stats[p].went_to_showdown_pct >= 0
            /\ stats[p].went_to_showdown_pct <= 100 * 100
            /\ Count0(showdowns, p) <= stats[p].total_hands


(***************************************************************************)
(* The pipeline run on the lines of a script of three hands: parse_hands   *)
(* is given the lines of Script with any of the lines between the markers  *)
(* left out.                                                               *)
(***************************************************************************)
P3 == <<"p", "3">>

P1RaisesTo6  == P1 \o Sp \o raises \o <<" ", "t", "o", " ", "6">>
P2Calls6     == P2 \o Sp \o calls \o <<" ", "6">>
P3RaisesTo20 == P3 \o Sp \o raises \o <<" ", "t", "o", " ", "2", "0">>
P1Calls20    == P1 \o Sp \o calls \o <<" ", "2", "0">>
FlopDots     == FlopMark \o <<":", " ", ".", ".", ".">>
P1Bets10     == P1 \o Sp \o bets \o <<" ", "1", "0">>
P3Folds      == P3 \o Sp \o folds
P3ShowsCollected == P3 \o Sp \o ShowsA \o Sp \o Collected \o Sp \o FromPot

\* a hand in which p2 folds and p3 alone shows and collects, on one line
ShowdownHand == <<StartMark, P2Folds, P3ShowsCollected, EndMark>>

\* a hand in which p1 raises, p2 calls, p3 re-raises, p1 calls, p2 folds and,
\* on the flop, p1 bets and p3 folds
Scenario ==
    <<StartMark, P1RaisesTo6, P2Calls6, P3RaisesTo20, P1Calls20, P2Folds,
      FlopDots, P1Bets10, P3Folds, EndMark>>

\* a hand in which p1 raises and p3 shows without collecting
LastHand == <<StartMark, P1RaisesTo6, P3 \o Sp \o ShowsA, EndMark>>

Script == Scenario \o ShowdownHand \o LastHand

\* whether a is the beginning of b with some lines other than the markers
\* left out
RECURSIVE IsSelection(_, _)
IsSelection(a, b) ==
    IF a = <<>> THEN TRUE
    ELSE IF b = <<>> THEN FALSE
    ELSE IF Head(a) = Head(b) THEN IsSelection(Tail(a), Tail(b))
    ELSE IF startswith(Head(b), StartMark) \/ startswith(Head(b), EndMark)
    THEN FALSE
    ELSE IsSelection(a, Tail(b))

ParseScriptLog ==
    /\ pc = "parse_hands"
    /\ \E l \in Range(Script) :
          /\ IsSelection(Append(logs, l), Script)
          /\ ParseStep(l)
          /\ logs' = Append(logs, l)
    /\ UNCHANGED <<pc, loopVars, handVars, counters, stats, callVars>>

NextScenario ==
    \/ ParseScriptLog
    \/ ParseReturn
    \/ ProcessLog
    \/ EndHand
    \/ ProcessReturn
    \/ CalculateStats

SpecScenario == Init /\ [][NextScenario]_vars


(***************************************************************************)
(* The claims about the output, checked under SpecScenario.                *)
(***************************************************************************)
IsStreetMark(l) ==
    startswith(l, FlopMark) \/ startswith(l, TurnMark) \/ startswith(l, RiverMark)

\* the positions of the preflop action lines of the hand h: the lines with a
\* preflop keyword that no line beginning with a street marker comes before
PreflopLines(h) ==
    {k \in DOMAIN h : /\ HasAny(actions, h[k])
                      /\ \A m \in 1..k : ~IsStreetMark(h[m])}

\* the emitted hands in which the player p has a preflop action line
HandsWithPreflop(p) ==
    {n \in DOMAIN hands :
        \E k \in PreflopLines(hands[n]) : extract_player_id(hands[n][k]) = p}

\* the players of the preflop action lines of the emitted hands
PreflopPlayers ==
    UNION {{extract_player_id(hands[n][k]) : k \in PreflopLines(hands[n])} :
              n \in DOMAIN hands}

\* C12: the output has an entry exactly for the players with a preflop action
\* line in some emitted hand, and for each of them Total Hands is
\* folds+calls+raises of the preflop histogram, which is the number of emitted
\* hands in which the player has a preflop action line, and lies between 1
\* and the number of hands.
C12_TotalHandsCountsPreflopHands ==
    pc = "done" =>
        /\ DOMAIN stats = PreflopPlayers
        /\ \A p \in DOMAIN stats :
              /\ stats[p].total_hands =
                    preflop[p][folds] + preflop[p][calls] + preflop[p][raises]
              /\ stats[p].total_hands = Cardinality(HandsWithPreflop(p))
              /\ 1 <= stats[p].total_hands
              /\ stats[p].total_hands <= Len(hands)

\* C12's case: two hands; p3 folds on the flop of the first and shows and
\* collects in the second but has no preflop action line, and has no entry;
\* p2 calls in the first hand and folds preflop in the second, p1 acts in the
\* first only
C12_Witness ==
    /\ pc = "done"
    /\ Len(hands) = 2
    /\ P3 \in DOMAIN showdowns \cap DOMAIN showdown_wins \cap DOMAIN cbets
    /\ DOMAIN stats = {P1, P2}
    /\ stats[P2].total_hands = 2
    /\ stats[P1].total_hands = 1

\* the stats with no showdown; tightness in tenths
NoShowdownStats(vpip, pfr, threebet, tightness) ==
    [ total_hands |-> 1, vpip |-> vpip, pfr |-> pfr, threebet |-> threebet,
      went_to_showdown_pct |-> 0, showdown_win_pct |-> 0,
      tightness_score |-> tightness ]

\* C13: for the lines of Scenario as the only hand the output is p1: VPIP
\* 100, PFR 100, 3Bet 0, Tightness 20.0; p2: VPIP 100, PFR 0, 3Bet 0,
\* Tightness 50.0; p3: VPIP 100, PFR 100, 3Bet 100, Tightness 0.0; both
\* showdown percentages are 0 for the three players.
C13_ScenarioStats ==
    (pc = "done" /\ logs = Scenario) =>
        stats = (P1 :> NoShowdownStats(100, 100, 0, 200)
                 @@ P2 :> NoShowdownStats(100, 0, 0, 500)
                 @@ P3 :> NoShowdownStats(100, 100, 100, 0))

\* C13's case: the pipeline has run on exactly the lines of Scenario; p3 is
\* the last preflop raiser, so the bet of p1 on the flop records nothing
C13_Witness ==
    /\ pc = "done"
    /\ logs = Scenario
    /\ hands = <<SubSeq(Scenario, 2, 9)>>
    /\ threebets = (P1 :> One(actions, calls) @@ P3 :> One(actions, raises))
    /\ cbets = EmptyDict

\* the players who show in the hand h
Showers(h) ==
    {extract_player_id(h[k]) : k \in {m \in DOMAIN h : contains(ShowsA, h[m])}}

\* whether a line of the hand h shows and collects for the player p
ShowsAndCollects(h, p) ==
    \E k \in DOMAIN h :
        /\ contains(ShowsA, h[k])
        /\ contains(Collected, h[k]) /\ contains(FromPot, h[k])
        /\ extract_player_id(h[k]) = p

\* the emitted hand n is the only showdown of p, p alone shows in it, and the
\* line that shows also collects
WinsOnlyShowdown(n, p) ==
    /\ Showers(hands[n]) = {p}
    /\ ShowsAndCollects(hands[n], p)
    /\ \A m \in DOMAIN hands : m # n => p \notin Showers(hands[m])

\* C14, as claimed: a player who alone shows in a hand, on a line that also
\* contains "collected" and "from pot", in the player's only showdown, has
\* Showdown Win (%) = 100.0 in the output.
C14_OnlyShowdownWon ==
    pc = "done" =>
        \A n \in DOMAIN hands : \A p \in Showers(hands[n]) :
            WinsOnlyShowdown(n, p) =>
                p \in DOMAIN stats /\ stats[p].showdown_win_pct = 100 * 100

\* C14, amended: such a player has Showdown Win (%) = 100.0 in the output if
\* the player has an entry in the output, that is, a preflop action line in
\* some emitted hand; a player with none has no entry at all.
C14_OnlyShowdownWonIfListed ==
    pc = "done" =>
        \A n \in DOMAIN hands : \A p \in Showers(hands[n]) :
            WinsOnlyShowdown(n, p) =>
                IF HandsWithPreflop(p) # {}
                THEN p \in DOMAIN stats /\ stats[p].showdown_win_pct = 100 * 100
                ELSE p \notin DOMAIN stats

\* C14's case: p3 re-raises in the first hand and alone shows and collects on
\* one line of the second hand, p3's only showdown
C14_Witness ==
    /\ pc = "done"
    /\ Len(hands) = 2
    /\ WinsOnlyShowdown(2, P3)
    /\ P3 \in DOMAIN stats
    /\ stats[P3].total_hands = 1
    /\ stats[P3].showdown_win_pct = 100 * 100
    /\ stats[P3].went_to_showdown_pct = 100 * 100


(***************************************************************************)
(* process_hands called on a list of hands: the caller puts any of the     *)
(* hands of GivenHands in the list, in any order.                          *)
(***************************************************************************)
\* p1 raises, p2 re-raises, p1 calls
ThreebetHand == <<P1Raises, P2Raises, P1Calls>>
\* p1 raises and bets on the flop, p3 folds to the bet
CbetHand == <<P1RaisesTo6, FlopDots, P1Bets10, P3Folds>>
\* p2 folds, p3 shows and collects
WonHand == <<P2Folds, P3ShowsCollected>>
\* p2 calls with no raise before
CallHand == <<P2Calls6>>

GivenHands == {ThreebetHand, CbetHand, WonHand, CallHand}

GiveHand ==
    /\ pc = "hands"
    /\ Len(hands) < MaxGiven
    /\ \E h \in GivenHands : hands' = Append(hands, h)
    /\ UNCHANGED <<pc, logs, in_hand, current_hand, loopVars, handVars,
                   counters, stats, callVars>>

CallProcessHands ==
    /\ pc = "hands"
    /\ pc' = "process_hands"
    /\ UNCHANGED <<parseVars, loopVars, handVars, counters, stats, callVars>>

InitGiven == pc = "hands" /\ InitRest

NextGiven ==
    \/ GiveHand
    \/ CallProcessHands
    \/ ProcessLog
    \/ EndHand
    \/ ProcessReturn
    \/ CalculateStats

SpecGiven == InitGiven /\ [][NextGiven]_vars

(***************************************************************************)
(* The claims about process_hands as a reduction, checked under SpecGiven. *)
(***************************************************************************)
\* the state of a hand after its lines from the k-th on, read from the state s
RECURSIVE ScanHand(_, _, _)
ScanHand(s, h, k) ==
    IF k > Len(h) THEN s ELSE ScanHand(LogStep(s, h[k]), h, k + 1)

\* the state at the end of the hand h processed alone
Solo(h) == ScanHand(NewHand, h, 1)

\* the sum over the hands, taken without order, of the histograms that each
\* hand alone adds for its dict `field`
HistSum(field, acts) ==
    [p \in UNION {DOMAIN Solo(hands[n])[field] : n \in DOMAIN hands} |->
        [a \in Range(acts) |->
            Cardinality({n \in DOMAIN hands :
                            /\ p \in DOMAIN Solo(hands[n])[field]
                            /\ Solo(hands[n])[field][p] = a})]]

\* the players that the hand h alone counts as winners of its showdown
SoloWinners(h) == Winners(Solo(h).players_shown, Solo(h).players_collected)

\* the sum over the hands, without order, of 1 for each player that the hand
\* alone has in its set `field`
CountSum(field) ==
    [p \in UNION {Solo(hands[n])[field] : n \in DOMAIN hands} |->
        Cardinality({n \in DOMAIN hands : p \in Solo(hands[n])[field]})]

WinSum ==
    [p \in UNION {SoloWinners(hands[n]) : n \in DOMAIN hands} |->
        Cardinality({n \in DOMAIN hands : p \in SoloWinners(hands[n])})]

\* C15: for every list of hands, in every order, the six counters that
\* process_hands returns are the pointwise sums, over the hands without
\* order, of what each hand processed alone adds; and while a hand is read
\* its state is the state of that hand read alone from a new hand's state,
\* whatever hands came before.
C15_SumOfHandsAlone ==
    /\ pc = "calculate_stats" =>
          /\ preflop = HistSum("hand_preflop", actions)
          /\ threebets = HistSum("hand_threebet", actions)
          /\ cbets = HistSum("hand_cbet", flop_actions)
          /\ can_3bet = CountSum("possible_3bettors")
          /\ showdowns = CountSum("players_shown")
          /\ showdown_wins = WinSum
    /\ (pc = "process_hands" /\ hand_no <= Len(hands)) =>
          HandState = Solo(SubSeq(hands[hand_no], 1, log_no - 1))
    /\ (pc = "process_hands" /\ hand_no > Len(hands)) => HandState = NewHand

\* C15's case: the hand with the bet on the flop comes first, then the hand
\* with the re-raise, then the lone call, which counts as no chance to 3-bet
C15_Witness ==
    /\ pc = "calculate_stats"
    /\ hands = <<CbetHand, ThreebetHand, CallHand>>
    /\ preflop = (P1 :> (folds :> 0 @@ calls :> 0 @@ raises :> 2)
                   @@ P2 :> (folds :> 0 @@ calls :> 1 @@ raises :> 1))
    /\ can_3bet = (P2 :> 1)
    /\ cbets = (P1 :> One(flop_actions, bets) @@ P3 :> One(flop_actions, folds))


(***************************************************************************)
(* The pipeline run twice on the same lines: the first run is given the    *)
(* lines of Script as in SpecScenario, the second run the lines of the     *)
(* first.                                                                  *)
(***************************************************************************)
\* RunAgain with the six counters kept, as if they were module-level dicts
RunAgain_KeepsCounters ==
    /\ pc = "done"
    /\ first_run = <<>>
    /\ first_run' = <<[logs |-> logs, stats |-> stats]>>
    /\ pc' = "parse_hands"
    /\ logs' = <<>>
    /\ hands' = <<>>
    /\ in_hand' = FALSE
    /\ current_hand' = <<>>
    /\ SetHandState(NewHand)
    /\ hand_no' = 1
    /\ log_no' = 1
    /\ stats' = EmptyDict
    /\ UNCHANGED <<log, nlogs, counters, player_id, dupVars>>

\* the three functions are called again: each call makes its locals anew
RunAgain ==
    /\ pc = "done"
    /\ first_run = <<>>
    /\ first_run' = <<[logs |-> logs, stats |-> stats]>>
    /\ pc' = "parse_hands"
    /\ logs' = <<>>
    /\ hands' = <<>>
    /\ in_hand' = FALSE
    /\ current_hand' = <<>>
    /\ SetHandState(NewHand)
    /\ hand_no' = 1
    /\ log_no' = 1
    /\ preflop' = EmptyDict
    /\ threebets' = EmptyDict
    /\ cbets' = EmptyDict
    /\ can_3bet' = EmptyDict
    /\ showdowns' = EmptyDict
    /\ showdown_wins' = EmptyDict
    /\ stats' = EmptyDict
    /\ UNCHANGED <<log, nlogs, player_id, dupVars>>

ParseFirstLog == first_run = <<>> /\ ParseScriptLog

ParseFirstReturn == first_run = <<>> /\ ParseReturn

\* parse_hands reads the next of the lines of the first run
ParseSameLog ==
    /\ pc = "parse_hands"
    /\ first_run # <<>>
    /\ Len(logs) < Len(first_run[1].logs)
    /\ LET l == first_run[1].logs[Len(logs) + 1]
       IN  /\ ParseStep(l)
           /\ logs' = Append(logs, l)
    /\ UNCHANGED <<pc, loopVars, handVars, counters, stats, callVars>>

ParseSameReturn ==
    /\ first_run # <<>>
    /\ logs = first_run[1].logs
    /\ ParseReturn

NextTwice ==
    \/ ParseFirstLog
    \/ ParseFirstReturn
    \/ ProcessLog
    \/ EndHand
    \/ ProcessReturn
    \/ CalculateStats
    \/ RunAgain
    \/ ParseSameLog
    \/ ParseSameReturn

SpecTwice == Init /\ [][NextTwice]_vars

OddLogs ==
    { <<>>,
      <<" ", "\t">>,
      <<"h", "i">>,
      SpaceAt,
      <<Quote>> \o Sp \o raises,
      <<Quote>> \o Sp \o bets,
      Sp \o folds,
      <<"x">> \o bets,
      FlopMark,
      ShowsA,
      Collected \o Sp \o FromPot }

FeedOddLog == FeedFrom(OddLogs)

NextOdd ==
    \/ FeedOddLog
    \/ FeedEndHand
    \/ FeedReturn
    \/ CalculateStats

SpecOdd == InitHands /\ [][NextOdd]_vars

(***************************************************************************)
(* The claims about errors, checked under SpecOdd.                         *)
(***************************************************************************)
\* whether l contains a keyword or an event that process_hands tests for
Recognised(l) ==
    \/ HasAny(flop_actions, l)
    \/ contains(ShowsA, l)
    \/ contains(Collected, l) /\ contains(FromPot, l)

\* the players of every dict and set of process_hands
AllPlayers ==
    DOMAIN hand_preflop \cup DOMAIN hand_threebet \cup DOMAIN hand_cbet
        \cup possible_3bettors \cup players_shown \cup players_collected
        \cup {first_raiser, preflop_raiser}
        \cup DOMAIN preflop \cup DOMAIN threebets \cup DOMAIN cbets
        \cup DOMAIN can_3bet \cup DOMAIN showdowns \cup DOMAIN showdown_wins

C17_NoError ==
    /\ IndexError \notin AllPlayers
    /\ pc = "done" =>
          /\ DOMAIN stats = DOMAIN preflop
          /\ \A p \in DOMAIN stats :
                /\ stats[p].total_hands > 0
                /\ stats[p].vpip \in Nat /\ stats[p].pfr \in Nat
                /\ stats[p].threebet \in Nat
                /\ stats[p].went_to_showdown_pct \in Nat
                /\ stats[p].showdown_win_pct \in Nat
                /\ Count0(can_3bet, p) = 0 => stats[p].threebet = 0
                /\ Count0(showdowns, p) = 0 => stats[p].showdown_win_pct = 0

C17_Step ==
    ReadsLog =>
        /\ Recognised(log') => extract_player_id(log') # IndexError
        /\ (~Recognised(log') /\ ~IsStreetMark(log')) =>
              UNCHANGED <<handVars, counters, stats>>

\* C17: process_hands and calculate_stats end without an error on hands of
\* any lines: a line on which extract_player_id is reached has an identity,
\* so that no dict or set ever holds the error value; a line with no marker,
\* keyword or event changes no state; and every percentage of the output is
\* a number, 0 where its denominator is 0.
C17_CompletesWithoutError == []C17_NoError /\ [][C17_Step]_vars

\* C17's case: the hand ends with the empty line after a quote that raises,
\* whose identity is the empty string; the output has that one player, who
\* could never 3-bet and never showed
C17_Witness ==
    /\ pc = "done"
    /\ log = <<>>
    /\ nlogs = 4
    /\ DOMAIN stats = {<<>>}
    /\ stats[<<>>].threebet = 0
    /\ stats[<<>>].showdown_win_pct = 0
    /\ stats[<<>>].pfr = 100


(***************************************************************************)
(* extract_player_id called on any line of up to MaxChars characters out   *)
(* of Chars.                                                               *)
(***************************************************************************)
Chars == {" ", "\t", "@", Quote, "A", "b"}

\* the caller writes the line, one character after the other
WriteChar ==
    /\ pc = "line"
    /\ Len(log) < MaxChars
    /\ \E c \in Chars : log' = Append(log, c)
    /\ UNCHANGED <<pc, parseVars, hand_no, log_no, nlogs, handVars, counters,
                   stats, callVars>>

CallExtractPlayerId ==
    /\ pc = "line"
    /\ player_id' = extract_player_id(log)
    /\ pc' = "extracted"
    /\ UNCHANGED <<parseVars, loopVars, handVars, counters, stats, first_run,
                   dupVars>>

InitExtract == pc = "line" /\ InitRest

NextExtract ==
    \/ WriteChar
    \/ CallExtractPlayerId

SpecExtract == InitExtract /\ [][NextExtract]_vars

\* C18: extract_player_id is total: for every line, the empty line and a
\* line of whitespace only included, it returns a lower-cased identity
\* string and raises no error.
C18_ExtractIsTotal ==
    pc = "extracted" =>
        /\ player_id # IndexError
        /\ player_id = lower(player_id)
        /\ \A k \in DOMAIN player_id : player_id[k] \in Chars \cup {"a"}


(***************************************************************************)
(* The claims about hands with no preflop raise, checked under SpecOdd.    *)
(***************************************************************************)
C26_Step ==
    (EndsHand /\ raise_count = 0) => cbets' = cbets

\* C26: in a hand with no line that matched "raises" on the preflop street,
\* where raise_count is 0 and preflop_raiser is the empty initial value,
\* has_cbet is false for the whole hand, no cbet action is recorded for a
\* player whose identity is a non-empty string, and the hand leaves the cbet
\* histogram unchanged.
C26_NoRaiseNoCbet ==
    /\ [](raise_count = 0 =>
             /\ ~has_cbet
             /\ \A p \in DOMAIN hand_cbet : p = <<>>)
    /\ [][C26_Step]_vars


(***************************************************************************)
(* The claims about what calculate_stats writes, checked under             *)
(* SpecScenario.                                                           *)
(***************************************************************************)
C27_Step ==
    pc = "calculate_stats" => UNCHANGED counters

\* C27: calculate_stats only reads its six counters: after the call preflop,
\* threebets, cbets, can_3bet, showdowns and showdown_wins have the keys and
\* the values they had before it, also for a player who is in threebets and
\* not in can_3bet.
C27_CalculateStatsOnlyReads == [][C27_Step]_vars


(***************************************************************************)
(* remove_duplicate_files of duplicate_utils.py, called on the directory   *)
(* path_to_logs, once and then once more.                                  *)
(***************************************************************************)
path_to_logs == "logs"

\* what listdir can name: the files f with their bytes, and the directories
Names == 1 .. MaxFiles
Contents == 0 .. MaxContent
\* the entry of a name that is a directory, which has no bytes
Directory == -1
Entries == Contents \cup {Directory}

join(path, f) == <<path, f>>

isfile(d, path) == path[2] \in DOMAIN d /\ d[path[2]] # Directory

\* hashlib.md5: many contents, fewer digests
md5(buf) == buf % Digests

calculate_file_hash(d, file_path) == md5(d[file_path[2]])

\* os.remove
remove(d, file_path) == [f \in DOMAIN d \ {file_path[2]} |-> d[f]]

\* the orders in which listdir can return the entries S
listdir(S) == {s \in [1 .. Cardinality(S) -> S] : Range(s) = S}

\* the paths of the listing l that are files
RECURSIVE Files(_, _)
Files(d, l) ==
    IF l = <<>> THEN <<>>
    ELSE IF isfile(d, join(path_to_logs, Head(l)))
         THEN <<join(path_to_logs, Head(l))>> \o Files(d, Tail(l))
         ELSE Files(d, Tail(l))

\* lines 18-24: the listing, seen_hashes = {} and duplicates_removed = 0
ListFiles ==
    /\ pc = "remove_duplicate_files"
    /\ runs < 2
    /\ \E l \in listdir(DOMAIN dir) : files' = Files(dir, l)
    /\ dir_before' = dir
    /\ file_no' = 1
    /\ seen_hashes' = EmptyDict
    /\ duplicates_removed' = 0
    /\ runs' = runs + 1
    /\ pc' = "for file_path"
    /\ UNCHANGED <<dir, parseVars, loopVars, handVars, counters, stats,
                   first_run, player_id>>

\* the body of the loop that removes the file that was seen before
ForFilePath_RemovesSeen ==
    /\ pc = "for file_path"
    /\ file_no <= Len(files)
    /\ LET file_path == files[file_no]
           file_hash == calculate_file_hash(dir, file_path)
       IN  IF file_hash \in DOMAIN seen_hashes
           THEN /\ dir' = remove(dir, seen_hashes[file_hash])
                /\ duplicates_removed' = duplicates_removed + 1
                /\ seen_hashes' = Put(seen_hashes, file_hash, file_path)
           ELSE /\ seen_hashes' = Put(seen_hashes, file_hash, file_path)
                /\ UNCHANGED <<dir, duplicates_removed>>
    /\ file_no' = file_no + 1
    /\ UNCHANGED <<pc, dir_before, files, runs, parseVars, loopVars, handVars,
                   counters, stats, first_run, player_id>>

\* lines 25-34: the body of the loop, for the next file_path of files
ForFilePath ==
    /\ pc = "for file_path"
    /\ file_no <= Len(files)
    /\ LET file_path == files[file_no]
           file_hash == calculate_file_hash(dir, file_path)
       IN  IF file_hash \in DOMAIN seen_hashes
           THEN /\ dir' = remove(dir, file_path)
                /\ duplicates_removed' = duplicates_removed + 1
                /\ UNCHANGED seen_hashes
           ELSE /\ seen_hashes' = Put(seen_hashes, file_hash, file_path)
                /\ UNCHANGED <<dir, duplicates_removed>>
    /\ file_no' = file_no + 1
    /\ UNCHANGED <<pc, dir_before, files, runs, parseVars, loopVars, handVars,
                   counters, stats, first_run, player_id>>

\* lines 36-42: the loop is over, the message is printed, the call returns
RemoveReturn ==
    /\ pc = "for file_path"
    /\ file_no > Len(files)
    /\ pc' = "remove_duplicate_files"
    /\ UNCHANGED <<dupVars, parseVars, loopVars, handVars, counters, stats,
                   first_run, player_id>>

\* the directories remove_duplicate_files is called on
Dirs == UNION {[S -> Entries] : S \in SUBSET Names}

InitDup ==
    /\ pc = "remove_duplicate_files"
    /\ InitMain
    /\ dir \in Dirs
    /\ InitFiles

NextDup ==
    \/ ListFiles
    \/ ForFilePath
    \/ RemoveReturn

SpecDup == InitDup /\ [][NextDup]_vars

(***************************************************************************)
(* The claims about remove_duplicate_files, checked under SpecDup.         *)
(***************************************************************************)
\* a call of remove_duplicate_files has returned
Returned == pc = "remove_duplicate_files" /\ runs > 0

\* the files of the directory d
FilesOf(d) == {f \in DOMAIN d : d[f] # Directory}

\* the place of the file f in the listing
RECURSIVE Place(_, _)
Place(l, f) ==
    IF l = <<>> THEN 0
    ELSE IF Head(l) = join(path_to_logs, f) THEN 1
    ELSE 1 + Place(Tail(l), f)

\* a file listed before f has the hash of f
SeenBefore(f) ==
    \E g \in FilesOf(dir_before) :
        /\ Place(files, g) < Place(files, f)
        /\ md5(dir_before[g]) = md5(dir_before[f])

HashesOf(d) == {md5(d[f]) : f \in FilesOf(d)}

\* what the claim says of the hashes: a file is deleted only if a file listed
\* before it has its hash, of every hash the first file listed remains, the
\* deletions are the files less the hashes, the directories stay, and the
\* second call deletes nothing
DeletesByHash ==
    /\ DOMAIN dir \subseteq DOMAIN dir_before
    /\ \A f \in DOMAIN dir : dir[f] = dir_before[f]
    /\ \A f \in DOMAIN dir_before \ FilesOf(dir_before) : f \in DOMAIN dir
    /\ \A f \in FilesOf(dir_before) : f \in DOMAIN dir <=> ~SeenBefore(f)
    /\ \A h \in HashesOf(dir_before) :
           Cardinality({f \in FilesOf(dir) : md5(dir[f]) = h}) = 1
    /\ duplicates_removed
           = Cardinality(FilesOf(dir_before))
               - Cardinality(HashesOf(dir_before))
    /\ runs = 2 => dir = dir_before /\ duplicates_removed = 0

\* no other file of the directory has the content of f
UniqueContent(f) ==
    \A g \in FilesOf(dir_before) \ {f} : dir_before[g] # dir_before[f]

\* no other file of the directory has the hash of f
UniqueHash(f) ==
    \A g \in FilesOf(dir_before) \ {f} :
        md5(dir_before[g]) # md5(dir_before[f])

====
